---- MODULE Spec2Model ----
(***************************************************************************)
(* The embeddable Medical AI chat widget (src/unnamed/part_004): its       *)
(* module-level state, the render projection, the network client           *)
(* sendMessage with its two await points, the public control surface       *)
(* window.MedicalAIWidget, and the markdown renderer parseMarkdown.        *)
(*                                                                         *)
(* Text is a sequence of tokens.  A token is one marker character          *)
(* (star, underscore, backtick, hash, minus, plus, dot, space, newline, a   *)
(* digit) or an opaque run of plain characters that holds no marker, no    *)
(* whitespace and no tag character.  An HTML tag, produced by the renderer *)
(* or typed by the user, is one token.  The backtick character is BT.      *)
(***************************************************************************)
EXTENDS Integers, Sequences, FiniteSets, TLC

VARIABLES
  MedicalAIWidgetConfig, \* window.MedicalAIWidgetConfig as read at load
  containers,            \* elements with id medical-ai-chat-widget in the body
  defaultConfig,         \* the defaultConfig object
  config,                \* the active configuration object
  isOpen, isMinimized, isLoading,
  messages,              \* the transcript
  sessionId,             \* <<Date.now(), random suffix>>
  now,                   \* Date.now()
  containerStyle,        \* widgetContainer.style.cssText (position rule)
  styleSheet,            \* styleSheet.textContent (theme colour token)
  innerHTML,             \* widgetContainer.innerHTML
  inputValue,            \* value of the textarea currently in the DOM
  pending,               \* sendMessage invocations suspended at an await
  fetchCount,            \* number of fetch() calls issued so far
  autoOpenTimer,         \* the setTimeout of the auto-open
  lastOp,                \* history: the entry point that ran last
  rendered,              \* history: the last entry point called render()
  mdText,                \* the argument of a parseMarkdown call
  mdHtml                 \* what that call returned

vars == << MedicalAIWidgetConfig, containers, defaultConfig, config, isOpen,
           isMinimized, isLoading, messages, sessionId, now, containerStyle, styleSheet,
           innerHTML, inputValue, pending, fetchCount, autoOpenTimer,
           lastOp, rendered, mdText, mdHtml >>

(***************************************************************************)
(* Bounds of the model.                                                    *)
(***************************************************************************)
MaxSends == 2

\* how many times the script is run on the page
MaxLoads == 2

\* the instants Date.now() takes: one millisecond and a later one
Instants == {0, 1}

\* the values Math.random().toString(36).substr(2, 9) is drawn from
RandomSuffixes == {"r0", "r1"}

\* what the user may have typed into the textarea
InputValues == { <<" ">>, <<" ", "hi", " ">> }

(***************************************************************************)
(* Configuration.                                                          *)
(***************************************************************************)
userId == "anonymous"

\* apiUrl is the value of a comparison of the host name with a URL, which
\* the request URL template prints as "false".
defaultConfigLiteral ==
  [ apiUrl      |-> "false",
    theme       |-> "blue",
    position    |-> "bottom-right",
    greeting    |-> <<"Hello!">>,
    title       |-> "Medical AI Assistant",
    placeholder |-> "Ask me about your health...",
    width       |-> "350px",
    height      |-> "500px",
    testMode    |-> FALSE ]

\* a merge into the defaults instead of into the target
ObjectAssignOntoDefaults(target, source) ==
  [ k \in (DOMAIN defaultConfigLiteral) \cup (DOMAIN source) |->
      IF k \in DOMAIN source THEN source[k] ELSE defaultConfigLiteral[k] ]

\* Object.assign(target, source) and the spread {...a, ...b}: the keys of
\* both, the source's value where the source has the key.
ObjectAssign(target, source) ==
  [ k \in (DOMAIN target) \cup (DOMAIN source) |->
      IF k \in DOMAIN source THEN source[k] ELSE target[k] ]

EmptyObject == [ k \in {} |-> "" ]

\* window.MedicalAIWidgetConfig: undefined, or an object of the host page
HostConfigs ==
  { [ defined |-> FALSE, value |-> EmptyObject ],
    [ defined |-> TRUE,
      value   |-> [ theme |-> "green", position |-> "top-right",
                    autoOpen |-> TRUE ] ] }

\* the objects a host passes to MedicalAIWidget.configure
Partials ==
  { EmptyObject,
    [ theme |-> "dark", position |-> "top-left" ],
    [ greeting |-> <<"Welcome">>, title |-> "Clinic" ],
    [ theme |-> "purple", placeholder |-> "Type here" ] }

\* the one object passed to configure where it interleaves with the sends
SendPartials ==
  { [ theme |-> "dark", position |-> "top-left", greeting |-> <<"Welcome">> ] }

positions ==
  [ p \in {"bottom-right", "bottom-left", "top-right", "top-left"} |->
      CASE p = "bottom-right" -> "bottom: 20px; right: 20px;"
        [] p = "bottom-left"  -> "bottom: 20px; left: 20px;"
        [] p = "top-right"    -> "top: 20px; right: 20px;"
        [] p = "top-left"     -> "top: 20px; left: 20px;" ]

\* positions[config.position] || positions['bottom-right']
positionRule(cfg) ==
  IF "position" \in DOMAIN cfg /\ cfg.position \in DOMAIN positions
  THEN positions[cfg.position]
  ELSE positions["bottom-right"]

\* the colour token the stylesheet template prints for config.theme
themeColor(cfg) ==
  IF "theme" \in DOMAIN cfg /\ cfg.theme = "green" THEN "#059669"
  ELSE IF "theme" \in DOMAIN cfg /\ cfg.theme = "purple" THEN "#7c3aed"
  ELSE IF "theme" \in DOMAIN cfg /\ cfg.theme = "dark" THEN "#1f2937"
  ELSE "#2563eb"

\* 'widget_' + Date.now() + '_' + Math.random().toString(36).substr(2, 9)
newSessionId(t, r) == << "widget_", t, r >>

(***************************************************************************)
(* Text helpers.                                                           *)
(***************************************************************************)
\* the backtick character
BT == "BACKTICK"

Whitespace == {" ", "\n"}

RECURSIVE trimStart(_)
trimStart(s) ==
  IF s # <<>> /\ Head(s) \in Whitespace THEN trimStart(Tail(s)) ELSE s

RECURSIVE trimEnd(_)
trimEnd(s) ==
  IF s # <<>> /\ s[Len(s)] \in Whitespace
  THEN trimEnd(SubSeq(s, 1, Len(s) - 1))
  ELSE s

\* the input value taken as it is
noTrim(s) == s

\* String.prototype.trim
trim(s) == trimEnd(trimStart(s))

startsWith(s, p) == Len(s) >= Len(p) /\ SubSeq(s, 1, Len(p)) = p

includes(s, tok) == \E i \in 1..Len(s) : s[i] = tok

Min(S) == CHOOSE x \in S : \A y \in S : x <= y
Max(S) == CHOOSE x \in S : \A y \in S : x >= y

\* the lines of s: what ^ and $ delimit under the m flag
RECURSIVE splitLines(_)
splitLines(s) ==
  IF ~includes(s, "\n") THEN << s >>
  ELSE LET i == Min({ k \in 1..Len(s) : s[k] = "\n" })
       IN  << SubSeq(s, 1, i - 1) >> \o splitLines(SubSeq(s, i + 1, Len(s)))

RECURSIVE joinLines(_)
joinLines(ls) ==
  IF Len(ls) = 1 THEN ls[1]
  ELSE ls[1] \o << "\n" >> \o joinLines(Tail(ls))

\* s.replace(/^<prefix>(.*$)/gim, '<open>$1<close>')
replaceLinePrefix(s, prefix, open, close) ==
  LET ls == splitLines(s)
      f(l) == IF startsWith(l, prefix)
              THEN << open >> \o SubSeq(l, Len(prefix) + 1, Len(l)) \o << close >>
              ELSE l
  IN  joinLines([ i \in 1..Len(ls) |-> f(ls[i]) ])

Digits == {"0", "1", "2", "3", "4", "5", "6", "7", "8", "9"}

\* the length of the match of ^\d+\. at the start of line l, 0 for none
orderedPrefixLen(l) ==
  LET D == { n \in 1..Len(l) : \A k \in 1..n : l[k] \in Digits }
  IN  IF D = {} THEN 0
      ELSE LET n == Max(D)
           IN  IF Len(l) >= n + 2 /\ l[n + 1] = "." /\ l[n + 2] = " "
               THEN n + 2 ELSE 0

\* s.replace(/^\d+\. (.*$)/gim, '<li>$1</li>')
replaceOrderedPrefix(s) ==
  LET ls == splitLines(s)
      f(l) == IF orderedPrefixLen(l) > 0
              THEN << "<li>" >> \o SubSeq(l, orderedPrefixLen(l) + 1, Len(l))
                   \o << "</li>" >>
              ELSE l
  IN  joinLines([ i \in 1..Len(ls) |-> f(ls[i]) ])

\* s.replace(/<d>(.*?)<d>/g, '<open>$1<close>'): scanning from the left, a
\* delimiter d opens a span that the nearest later d closes; the span may be
\* empty and, unless dotAll, may not hold a newline.  An opening d with no
\* closing d stays as it is and the scan moves on by one token.
RECURSIVE replaceSpan(_, _, _, _, _)
replaceSpan(s, d, open, close, dotAll) ==
  IF s = <<>> THEN <<>>
  ELSE IF startsWith(s, d)
  THEN LET n == Len(d)
           C == { j \in (n + 1)..(Len(s) - n + 1) :
                    /\ SubSeq(s, j, j + n - 1) = d
                    /\ dotAll \/ \A k \in (n + 1)..(j - 1) : s[k] # "\n" }
       IN  IF C = {}
           THEN << Head(s) >> \o replaceSpan(Tail(s), d, open, close, dotAll)
           ELSE open \o SubSeq(s, n + 1, Min(C) - 1) \o close
                \o replaceSpan(SubSeq(s, Min(C) + n, Len(s)), d, open, close, dotAll)
  ELSE << Head(s) >> \o replaceSpan(Tail(s), d, open, close, dotAll)

\* s.replace(/<pat>/g, rep) for a literal pattern
RECURSIVE replaceAll(_, _, _)
replaceAll(s, pat, rep) ==
  IF s = <<>> THEN <<>>
  ELSE IF startsWith(s, pat)
  THEN rep \o replaceAll(SubSeq(s, Len(pat) + 1, Len(s)), pat, rep)
  ELSE << Head(s) >> \o replaceAll(Tail(s), pat, rep)

\* html.replace(/(<li>.*<\/li>)/s, '<ul>$1</ul>'): no g flag and a greedy
\* dot-all, so one container from the first <li> to the last </li>
wrapList(html) ==
  LET O == { i \in 1..Len(html) : html[i] = "<li>" }
  IN  IF O = {} THEN html
      ELSE LET a == Min(O)
               E == { i \in (a + 1)..Len(html) : html[i] = "</li>" }
           IN  IF E = {} THEN html
               ELSE SubSeq(html, 1, a - 1) \o << "<ul>" >>
                    \o SubSeq(html, a, Max(E)) \o << "</ul>" >>
                    \o SubSeq(html, Max(E) + 1, Len(html))

(***************************************************************************)
(* parseMarkdown: the replacements in the order of the source.             *)
(***************************************************************************)
mdHeaders(s) ==
  replaceLinePrefix(
    replaceLinePrefix(
      replaceLinePrefix(s, << "#", "#", "#", " " >>, "<h3>", "</h3>"),
      << "#", "#", " " >>, "<h2>", "</h2>"),
    << "#", " " >>, "<h1>", "</h1>")

mdBold(s) ==
  replaceSpan(
    replaceSpan(s, << "*", "*" >>, << "<strong>" >>, << "</strong>" >>, FALSE),
    << "_", "_" >>, << "<strong>" >>, << "</strong>" >>, FALSE)

mdItalic(s) ==
  replaceSpan(
    replaceSpan(s, << "*" >>, << "<em>" >>, << "</em>" >>, FALSE),
    << "_" >>, << "<em>" >>, << "</em>" >>, FALSE)

mdCode(s) ==
  replaceSpan(
    replaceSpan(s, << BT, BT, BT >>, << "<pre>", "<code>" >>,
                << "</code>", "</pre>" >>, TRUE),
    << BT >>, << "<code>" >>, << "</code>" >>, FALSE)

mdLists(s) ==
  replaceOrderedPrefix(
    replaceLinePrefix(
      replaceLinePrefix(
        replaceLinePrefix(s, << "*", " " >>, "<li>", "</li>"),
        << "-", " " >>, "<li>", "</li>"),
      << "+", " " >>, "<li>", "</li>"))

mdBreaks(s) ==
  replaceAll(replaceAll(s, << "\n", "\n" >>, << "</p>", "<p>" >>),
             << "\n" >>, << "<br>" >>)

BlockTags == {"<h1>", "<h2>", "<h3>", "<ul>", "<pre>"}

\* the paragraph container put around every output
mdWrapAlways(html) == << "<p>" >> \o html \o << "</p>" >>

mdWrap(html) ==
  IF \A t \in BlockTags : ~includes(html, t)
  THEN << "<p>" >> \o html \o << "</p>" >>
  ELSE html

\* the italic rules applied before the bold rules
parseMarkdownItalicFirst(text) ==
  IF text = <<>> THEN <<>>
  ELSE mdWrap(wrapList(mdBreaks(mdLists(mdCode(mdBold(mdItalic(mdHeaders(text))))))))

parseMarkdown(text) ==
  IF text = <<>> THEN <<>>
  ELSE mdWrap(wrapList(mdBreaks(mdLists(mdCode(mdItalic(mdBold(mdHeaders(text))))))))


(***************************************************************************)
(* Render engine.                                                          *)
(***************************************************************************)
MsPerMinute == 60000
MinutesPerDay == 1440

\* toLocaleTimeString with hour and minute only
formatTime(timestamp) == (timestamp \div MsPerMinute) % MinutesPerDay

NoElement == << >>

renderMessage(msg) ==
  [ role    |-> msg.role,
    avatar  |-> IF msg.role = "user" THEN "person" ELSE "robot",
    content |-> IF msg.role = "assistant" THEN parseMarkdown(msg.content)
                ELSE msg.content,
    time    |-> formatTime(msg.timestamp) ]

renderButton ==
  [ view        |-> "widget-button",
    minimized   |-> FALSE,
    title       |-> "",
    body        |-> FALSE,
    messagesHtml|-> << >>,
    loadingHtml |-> FALSE,
    inputId     |-> NoElement,
    placeholder |-> "",
    sendDisabled|-> FALSE ]

\* a renderChat that shows the thinking indicator in the minimized panel too
renderChatLoadingAlways(min, loading, msgs, sid, cfg) ==
  [ view        |-> "widget-chat",
    minimized   |-> min,
    title       |-> cfg.title,
    body        |-> ~min,
    messagesHtml|-> IF min THEN << >>
                    ELSE [ i \in 1..Len(msgs) |-> renderMessage(msgs[i]) ],
    loadingHtml |-> loading,
    inputId     |-> IF min THEN NoElement ELSE sid,
    placeholder |-> IF min THEN "" ELSE cfg.placeholder,
    sendDisabled|-> loading ]

renderChat(min, loading, msgs, sid, cfg) ==
  [ view        |-> "widget-chat",
    minimized   |-> min,
    title       |-> cfg.title,
    body        |-> ~min,
    messagesHtml|-> IF min THEN << >>
                    ELSE [ i \in 1..Len(msgs) |-> renderMessage(msgs[i]) ],
    loadingHtml |-> ~min /\ loading,
    inputId     |-> IF min THEN NoElement ELSE sid,
    placeholder |-> IF min THEN "" ELSE cfg.placeholder,
    sendDisabled|-> ~min /\ loading ]

\* widgetContainer.innerHTML = isOpen ? renderChat() : renderButton()
render(open, min, loading, msgs, sid, cfg) ==
  IF open THEN renderChat(min, loading, msgs, sid, cfg) ELSE renderButton

\* render() on the state the running entry point leaves: the markup is
\* rebuilt, so the textarea of the new markup (if any) is empty
Rerender ==
  /\ innerHTML' = render(isOpen', isMinimized', isLoading', messages',
                         sessionId', config')
  /\ inputValue' = << >>
  /\ rendered' = TRUE

\* document.getElementById(`widget-input-${sessionId}`)
getInput == innerHTML.inputId # NoElement /\ innerHTML.inputId = sessionId

message(role, content, t) ==
  [ role |-> role, content |-> content, timestamp |-> t ]

autoOpenSet(cfg) == "autoOpen" \in DOMAIN cfg /\ cfg.autoOpen = TRUE

(***************************************************************************)
(* The state after the script has run once on the host page.               *)
(***************************************************************************)
\* the script run on a page whose window.MedicalAIWidgetConfig is hc
load(hc, r) ==
  /\ MedicalAIWidgetConfig = hc
  /\ containers = 1
  /\ defaultConfig = defaultConfigLiteral
  /\ config = IF hc.defined
              THEN ObjectAssign(defaultConfigLiteral, hc.value)
              ELSE defaultConfigLiteral
  /\ isOpen = FALSE
  /\ isMinimized = FALSE
  /\ isLoading = FALSE
  /\ now = 0
  /\ messages = << message("assistant", config.greeting, now) >>
  /\ sessionId = newSessionId(now, r)
  /\ containerStyle = positionRule(config)
  /\ styleSheet = themeColor(config)
  /\ innerHTML = render(isOpen, isMinimized, isLoading, messages, sessionId, config)
  /\ inputValue = << >>
  /\ pending = << >>
  /\ fetchCount = 0
  /\ autoOpenTimer = IF autoOpenSet(config) THEN "scheduled" ELSE "none"
  /\ lastOp = "load"
  /\ rendered = TRUE

WidgetInit ==
  \E hc \in HostConfigs, r \in RandomSuffixes : load(hc, r)

Init ==
  /\ WidgetInit
  /\ mdText = << >>
  /\ mdHtml = << >>

(***************************************************************************)
(* Environment: the clock and the user's typing.                           *)
(***************************************************************************)
domVars == << containerStyle, styleSheet >>
hostVars == << MedicalAIWidgetConfig, containers >>
mdVars == << mdText, mdHtml >>
flagVars == << isOpen, isMinimized, isLoading >>

Tick ==
  /\ now + 1 \in Instants
  /\ now' = now + 1
  /\ UNCHANGED << lastOp, rendered >>
  /\ UNCHANGED << hostVars, mdVars, defaultConfig, config, flagVars, messages, sessionId,
                  domVars, innerHTML, inputValue, pending, fetchCount,
                  autoOpenTimer >>

\* the user edits the textarea; its oninput handler is autoResize, which
\* sets textarea.style.height only
autoResize(v) ==
  /\ getInput
  /\ inputValue' = v
  /\ rendered' = FALSE
  /\ UNCHANGED << hostVars, mdVars, defaultConfig, config, flagVars, messages, sessionId,
                  now, domVars, innerHTML, pending, fetchCount, autoOpenTimer >>

(***************************************************************************)
(* window.MedicalAIWidget: open, close, minimize, reset, configure.        *)
(***************************************************************************)
open ==
  /\ isOpen' = TRUE
  /\ isMinimized' = FALSE
  /\ UNCHANGED << isLoading, messages, sessionId, config >>
  /\ Rerender

\* a close() that also starts a new session
closeNewSession ==
  /\ isOpen' = FALSE
  /\ sessionId' = newSessionId(now, "r1")
  /\ UNCHANGED << isMinimized, isLoading, messages, config >>
  /\ Rerender

\* a close() that also clears the loading flag
closeClearsLoading ==
  /\ isOpen' = FALSE
  /\ isLoading' = FALSE
  /\ UNCHANGED << isMinimized, messages, sessionId, config >>
  /\ Rerender

close ==
  /\ isOpen' = FALSE
  /\ UNCHANGED << isMinimized, isLoading, messages, sessionId, config >>
  /\ Rerender

\* a minimize() that does nothing while the widget is closed
minimizeOnlyOpen ==
  /\ isMinimized' = (IF isOpen THEN ~isMinimized ELSE isMinimized)
  /\ UNCHANGED << isOpen, isLoading, messages, sessionId, config >>
  /\ Rerender

minimize ==
  /\ isMinimized' = ~isMinimized
  /\ UNCHANGED << isOpen, isLoading, messages, sessionId, config >>
  /\ Rerender

\* a reset() that leaves the transcript empty
resetNoGreeting(r) ==
  /\ messages' = << >>
  /\ sessionId' = newSessionId(now, r)
  /\ UNCHANGED << isOpen, isMinimized, isLoading, config >>
  /\ Rerender

\* a reset() that also clears the loading flag
resetClearsLoading(r) ==
  /\ messages' = << message("assistant", config.greeting, now) >>
  /\ sessionId' = newSessionId(now, r)
  /\ isLoading' = FALSE
  /\ UNCHANGED << isOpen, isMinimized, config >>
  /\ Rerender

reset(r) ==
  /\ messages' = << message("assistant", config.greeting, now) >>
  /\ sessionId' = newSessionId(now, r)
  /\ UNCHANGED << isOpen, isMinimized, isLoading, config >>
  /\ Rerender

\* config is the defaultConfig object itself when the host page set no
\* MedicalAIWidgetConfig, so Object.assign then writes to defaultConfig too
configure(newConfig) ==
  /\ config' = ObjectAssign(config, newConfig)
  /\ defaultConfig' = IF MedicalAIWidgetConfig.defined THEN defaultConfig
                      ELSE config'
  /\ UNCHANGED << isOpen, isMinimized, isLoading, messages, sessionId >>
  /\ Rerender

Open ==
  /\ open
  /\ lastOp' = "open"
  /\ UNCHANGED << hostVars, mdVars, defaultConfig, now, domVars, pending, fetchCount,
                  autoOpenTimer >>

Close ==
  /\ close
  /\ lastOp' = "close"
  /\ UNCHANGED << hostVars, mdVars, defaultConfig, now, domVars, pending, fetchCount,
                  autoOpenTimer >>

Minimize ==
  /\ minimize
  /\ lastOp' = "minimize"
  /\ UNCHANGED << hostVars, mdVars, defaultConfig, now, domVars, pending, fetchCount,
                  autoOpenTimer >>

Reset ==
  /\ \E r \in RandomSuffixes : reset(r)
  /\ lastOp' = "reset"
  /\ UNCHANGED << hostVars, mdVars, defaultConfig, now, domVars, pending, fetchCount,
                  autoOpenTimer >>

Configure ==
  /\ \E newConfig \in SendPartials : configure(newConfig)
  /\ lastOp' = "configure"
  /\ UNCHANGED << hostVars, mdVars, now, domVars, pending, fetchCount, autoOpenTimer >>

\* setTimeout(() => window.MedicalAIWidget.open(), config.autoOpenDelay || 3000)
AutoOpen ==
  /\ autoOpenTimer = "scheduled"
  /\ autoOpenTimer' = "fired"
  /\ open
  /\ lastOp' = "autoOpen"
  /\ UNCHANGED << hostVars, mdVars, defaultConfig, now, domVars, pending, fetchCount >>


(***************************************************************************)
(* Network client: sendMessage and its continuations.                      *)
(***************************************************************************)
\* what fetch() settles with
FetchOutcomes ==
  { [ settled |-> "fulfilled", ok |-> TRUE,  status |-> 200, message |-> "" ],
    [ settled |-> "fulfilled", ok |-> FALSE, status |-> 500, message |-> "" ],
    [ settled |-> "rejected",  ok |-> FALSE, status |-> 0,
      message |-> "Failed to fetch" ] }

\* what response.json() settles with: the body object, or a SyntaxError
JsonOutcomes ==
  { [ settled |-> "fulfilled",
      data |-> [ response |-> << "A" >> ], message |-> "" ],
    [ settled |-> "fulfilled",
      data |-> EmptyObject, message |-> "" ],
    [ settled |-> "rejected",
      data |-> EmptyObject, message |-> "Unexpected token < in JSON" ] }

\* `HTTP ${response.status}: ${response.statusText}`
httpErrorMessage(response) ==
  IF response.status = 500 THEN "HTTP 500: Internal Server Error"
  ELSE "HTTP error"

apology == << "I apologize, but I couldn't process your request properly." >>

\* a catch block that pushes a fixed text without error.message
errorContentGeneric(errorMessage) == apology

\* the content of the message the catch block pushes
errorContent(errorMessage) ==
  << "I apologize, but I'm having trouble connecting right now. Error: ",
     errorMessage,
     ". Please try again later or consult a healthcare professional for urgent medical concerns." >>

\* the reply read from a field the body does not have
replyContentWrongField(data) ==
  IF "message" \in DOMAIN data /\ data.message # << >>
  THEN data.message
  ELSE apology

\* data.response || 'I apologize, ...'
\* a reply that falls back to the apology only when the field is missing
replyContentAbsentOnly(data) ==
  IF "response" \in DOMAIN data THEN data.response ELSE apology

replyContent(data) ==
  IF "response" \in DOMAIN data /\ data.response # << >>
  THEN data.response
  ELSE apology

\* a fetch() call whose body carries the textarea's value as typed
requestRawInput(msg) ==
  [ url    |-> << config.apiUrl, "/api/chat/widget-default" >>,
    method |-> "POST",
    body   |-> [ message         |-> inputValue,
                 conversation_id |-> sessionId,
                 user_id         |-> userId,
                 context         |-> [ source |-> "embed-widget",
                                       widget_session |-> TRUE ] ] ]

\* the fetch() call of sendMessage
request(msg) ==
  [ url    |-> << config.apiUrl, "/api/chat/widget-default" >>,
    method |-> "POST",
    body   |-> [ message         |-> msg,
                 conversation_id |-> sessionId,
                 user_id         |-> userId,
                 context         |-> [ source |-> "embed-widget",
                                       widget_session |-> TRUE ] ] ]

removeAt(q, i) == SubSeq(q, 1, i - 1) \o SubSeq(q, i + 1, Len(q))

\* an entry point that re-renders before it returns
returnRendering ==
  /\ rendered' = TRUE
  /\ UNCHANGED << hostVars, mdVars, defaultConfig, config, flagVars, messages, sessionId,
                  now, domVars, innerHTML, inputValue, pending, fetchCount,
                  autoOpenTimer >>

\* an entry point that returns without touching anything
return ==
  /\ rendered' = FALSE
  /\ UNCHANGED << hostVars, mdVars, defaultConfig, config, flagVars, messages, sessionId,
                  now, domVars, innerHTML, inputValue, pending, fetchCount,
                  autoOpenTimer >>

\* the guard without the isLoading test
rejectsEmptyOnly(msg) == msg = << >>

\* if (!message || isLoading) return;
rejects(msg) == msg = << >> \/ isLoading

\* sendMessage up to its first await
sendMessage ==
  IF ~getInput THEN return
  ELSE LET msg == trim(inputValue)
       IN  IF rejects(msg) THEN return
           ELSE /\ messages' = Append(messages, message("user", msg, now))
                /\ isLoading' = TRUE
                /\ pending' = Append(pending, [ await |-> "fetch",
                                                request |-> request(msg) ])
                /\ fetchCount' = fetchCount + 1
                /\ UNCHANGED << isOpen, isMinimized, sessionId, config >>
                /\ Rerender
                /\ UNCHANGED << hostVars, mdVars, defaultConfig, now, domVars,
                                autoOpenTimer >>

\* the tail of sendMessage dropping the result of a request whose
\* conversation_id is no longer the current session
finishDiscardsStale(i, content) ==
  /\ messages' = IF pending[i].request.body.conversation_id = sessionId
                 THEN Append(messages, message("assistant", content, now))
                 ELSE messages
  /\ isLoading' = FALSE
  /\ pending' = removeAt(pending, i)
  /\ UNCHANGED << isOpen, isMinimized, sessionId, config >>
  /\ Rerender
  /\ UNCHANGED << hostVars, mdVars, defaultConfig, now, domVars, fetchCount,
                  autoOpenTimer >>

\* the tail of sendMessage with isLoading = false inside the try block, so
\* that an error path skips it
finishClearsOnSuccessOnly(i, content) ==
  /\ messages' = Append(messages, message("assistant", content, now))
  /\ isLoading' = (content \notin { apology, << "A" >> })
  /\ pending' = removeAt(pending, i)
  /\ UNCHANGED << isOpen, isMinimized, sessionId, config >>
  /\ Rerender
  /\ UNCHANGED << hostVars, mdVars, defaultConfig, now, domVars, fetchCount,
                  autoOpenTimer >>

\* the tail of sendMessage dropping the result when the panel does not show
\* the transcript
finishWhenVisible(i, content) ==
  /\ messages' = IF isOpen /\ ~isMinimized
                 THEN Append(messages, message("assistant", content, now))
                 ELSE messages
  /\ isLoading' = FALSE
  /\ pending' = removeAt(pending, i)
  /\ UNCHANGED << isOpen, isMinimized, sessionId, config >>
  /\ Rerender
  /\ UNCHANGED << hostVars, mdVars, defaultConfig, now, domVars, fetchCount,
                  autoOpenTimer >>

\* an end of the invocation that puts the assistant message in the place of
\* the last message
finishReplacesLast(i, content) ==
  /\ messages' = [ messages EXCEPT
                     ![Len(messages)] = message("assistant", content, now) ]
  /\ isLoading' = FALSE
  /\ pending' = removeAt(pending, i)
  /\ UNCHANGED << isOpen, isMinimized, sessionId, config >>
  /\ Rerender
  /\ UNCHANGED << hostVars, mdVars, defaultConfig, now, domVars, fetchCount,
                  autoOpenTimer >>

\* the push of the assistant message (in the try or in the catch block), then
\* isLoading = false; render(): the end of the invocation pending[i]
finish(i, content) ==
  /\ messages' = Append(messages, message("assistant", content, now))
  /\ isLoading' = FALSE
  /\ pending' = removeAt(pending, i)
  /\ UNCHANGED << isOpen, isMinimized, sessionId, config >>
  /\ Rerender
  /\ UNCHANGED << hostVars, mdVars, defaultConfig, now, domVars, fetchCount,
                  autoOpenTimer >>

\* await fetch(...) settles for the invocation pending[i]
fetchSettles(i, outcome) ==
  /\ pending[i].await = "fetch"
  /\ IF outcome.settled = "rejected"
     THEN finish(i, errorContent(outcome.message))
     ELSE IF ~outcome.ok
     THEN finish(i, errorContent(httpErrorMessage(outcome)))
     ELSE /\ pending' = [ pending EXCEPT ![i].await = "json" ]
          /\ rendered' = FALSE
          /\ UNCHANGED << hostVars, mdVars, defaultConfig, config, flagVars, messages,
                          sessionId, now, domVars, innerHTML, inputValue,
                          fetchCount, autoOpenTimer >>

\* await response.json() settles for the invocation pending[i]
jsonSettles(i, outcome) ==
  /\ pending[i].await = "json"
  /\ IF outcome.settled = "rejected"
     THEN finish(i, errorContent(outcome.message))
     ELSE finish(i, replyContent(outcome.data))

SendMessage ==
  /\ sendMessage
  /\ lastOp' = "sendMessage"

\* if (event.key === 'Enter' && !event.shiftKey) sendMessage()
handleKeyPress(event) ==
  IF event.key = "Enter" /\ ~event.shiftKey THEN sendMessage ELSE return

KeyEvents ==
  { [ key |-> "Enter", shiftKey |-> FALSE ],
    [ key |-> "Enter", shiftKey |-> TRUE ],
    [ key |-> "a",     shiftKey |-> FALSE ] }

HandleKeyPress ==
  /\ \E event \in KeyEvents : handleKeyPress(event)
  /\ lastOp' = "handleKeyPress"

AutoResize ==
  /\ \E v \in InputValues : autoResize(v)
  /\ lastOp' = "autoResize"

FetchSettles ==
  /\ \E i \in 1..Len(pending), outcome \in FetchOutcomes : fetchSettles(i, outcome)
  /\ lastOp' = "fetchSettles"

JsonSettles ==
  /\ \E i \in 1..Len(pending), outcome \in JsonOutcomes : jsonSettles(i, outcome)
  /\ lastOp' = "jsonSettles"

Next ==
  \/ Open
  \/ Close
  \/ Minimize
  \/ Reset
  \/ Configure
  \/ AutoOpen
  \/ SendMessage /\ fetchCount' <= MaxSends
  \/ HandleKeyPress /\ fetchCount' <= MaxSends
  \/ AutoResize
  \/ FetchSettles
  \/ JsonSettles

\* every entry point within one millisecond of the load
Spec == Init /\ [][Next]_vars

\* the control surface without sends, over every object of Partials
ConfigureAny ==
  /\ \E newConfig \in Partials : configure(newConfig)
  /\ lastOp' = "configure"
  /\ UNCHANGED << hostVars, mdVars, now, domVars, pending, fetchCount, autoOpenTimer >>

ConfigNext ==
  \/ Open
  \/ Close
  \/ Minimize
  \/ Reset
  \/ ConfigureAny
  \/ AutoOpen
  \/ AutoResize

ConfigSpec == Init /\ [][ConfigNext]_vars

(***************************************************************************)
(* Sequential sends against a stubbed backend that answers every request   *)
(* with a body determined by the request's message.                        *)
(***************************************************************************)
SeqInputValues == { << " " >>, << "first" >>, << " ", "second", " " >> }

stub(msg) == IF msg = << "first" >> THEN << "A" >> ELSE << "B" >>

SeqType ==
  /\ \E v \in SeqInputValues : autoResize(v)
  /\ lastOp' = "autoResize"

FetchFulfils ==
  /\ \E i \in 1..Len(pending) :
       fetchSettles(i, [ settled |-> "fulfilled", ok |-> TRUE, status |-> 200,
                         message |-> "" ])
  /\ lastOp' = "fetchSettles"

JsonReplies ==
  /\ \E i \in 1..Len(pending) :
       jsonSettles(i, [ settled |-> "fulfilled",
                        data |-> [ response |-> stub(pending[i].request.body.message) ],
                        message |-> "" ])
  /\ lastOp' = "jsonSettles"

SeqNext ==
  \/ Open
  \/ Close
  \/ Minimize
  \/ AutoOpen
  \/ SeqType
  \/ SendMessage /\ fetchCount' <= MaxSends
  \/ HandleKeyPress /\ fetchCount' <= MaxSends
  \/ FetchFulfils
  \/ JsonReplies

SeqSpec == Init /\ [][SeqNext]_vars

(***************************************************************************)
(* parseMarkdown on its own: one call on one text.                         *)
(***************************************************************************)
BoldText == << "bold" >>
ItalicText == << "it", " ", "alic" >>
CodeText == << "code" >>

BoldSpan == << "*", "*" >> \o BoldText \o << "*", "*" >>
ItalicSpan == << "*" >> \o ItalicText \o << "*" >>
CodeSpan == << BT >> \o CodeText \o << BT >>

Separators == { << " " >>, << " ", "and", " " >>, << "\n" >> }
Prefixes == { << >>, << "see", " " >> }
Suffixes == { << >>, << " ", "end" >> }

\* one bold, one italic and one code span, in every order, apart
SpanOrders ==
  { << BoldSpan, ItalicSpan, CodeSpan >>, << BoldSpan, CodeSpan, ItalicSpan >>,
    << ItalicSpan, BoldSpan, CodeSpan >>, << ItalicSpan, CodeSpan, BoldSpan >>,
    << CodeSpan, BoldSpan, ItalicSpan >>, << CodeSpan, ItalicSpan, BoldSpan >> }

ThreeSpanTexts ==
  { pre \o o[1] \o s1 \o o[2] \o s2 \o o[3] \o post :
      pre \in Prefixes, o \in SpanOrders, s1 \in Separators,
      s2 \in Separators, post \in Suffixes }

MdInit ==
  /\ WidgetInit
  /\ mdText \in ThreeSpanTexts
  /\ mdHtml = << >>

Parse ==
  /\ mdHtml' = parseMarkdown(mdText)
  /\ UNCHANGED << hostVars, mdText, defaultConfig, config, flagVars, messages,
                  sessionId, now, domVars, innerHTML, inputValue, pending,
                  fetchCount, autoOpenTimer, lastOp, rendered >>

MdNext == Parse

MdSpec == MdInit /\ [][MdNext]_vars

(***************************************************************************)
(* The browser's reading of the markup assigned to innerHTML: a tag token  *)
(* opens or closes an element, every other token is text.                  *)
(***************************************************************************)
\* the tags the renderer writes
RendererTags ==
  { "<h1>", "</h1>", "<h2>", "</h2>", "<h3>", "</h3>", "<strong>", "</strong>",
    "<em>", "</em>", "<pre>", "</pre>", "<code>", "</code>", "<li>", "</li>",
    "<ul>", "</ul>", "<p>", "</p>", "<br>" }

\* tags a user can type into the textarea
TypedTags == { "<img src=x onerror=alert(1)>", "<b>", "</b>" }

domElements(markup) ==
  SelectSeq(markup, LAMBDA t : t \in RendererTags \cup TypedTags)

domText(markup) ==
  SelectSeq(markup, LAMBDA t : t \notin RendererTags \cup TypedTags)

HtmlInputValues ==
  { << "hi" >>,
    << "<img src=x onerror=alert(1)>" >>,
    << "a", " ", "<b>", "b", "</b>" >> }

HtmlType ==
  /\ \E v \in HtmlInputValues : autoResize(v)
  /\ lastOp' = "autoResize"

\* sends of typed text that may hold tags, each answered with a 2xx body
HtmlNext ==
  \/ Open
  \/ Close
  \/ Minimize
  \/ AutoOpen
  \/ HtmlType
  \/ SendMessage /\ fetchCount' <= MaxSends
  \/ HandleKeyPress /\ fetchCount' <= MaxSends
  \/ FetchFulfils
  \/ JsonReplies

HtmlSpec == Init /\ [][HtmlNext]_vars

(***************************************************************************)
(* The auto-open timer, over host configurations that set autoOpen and     *)
(* autoOpenDelay.                                                          *)
(***************************************************************************)
DefaultAutoOpenDelay == 3000

AutoOpenHostConfigs ==
  { [ defined |-> FALSE, value |-> EmptyObject ],
    [ defined |-> TRUE, value |-> [ autoOpen |-> FALSE, autoOpenDelay |-> 3000 ] ],
    [ defined |-> TRUE, value |-> [ autoOpen |-> TRUE ] ],
    [ defined |-> TRUE, value |-> [ autoOpen |-> TRUE, autoOpenDelay |-> 5000 ] ],
    [ defined |-> TRUE, value |-> [ autoOpen |-> TRUE, autoOpenDelay |-> 0 ] ] }

\* the configuration as merged when the script ran
loadConfig ==
  IF MedicalAIWidgetConfig.defined
  THEN ObjectAssign(defaultConfigLiteral, MedicalAIWidgetConfig.value)
  ELSE defaultConfigLiteral

\* config.autoOpenDelay || 3000: the delay handed to setTimeout
timeoutDelay(cfg) ==
  IF "autoOpenDelay" \in DOMAIN cfg /\ cfg.autoOpenDelay # 0
  THEN cfg.autoOpenDelay
  ELSE DefaultAutoOpenDelay

AutoOpenInit ==
  /\ \E hc \in AutoOpenHostConfigs, r \in RandomSuffixes : load(hc, r)
  /\ mdText = << >>
  /\ mdHtml = << >>

\* configure({autoOpen: true}) after the load
ConfigureAutoOpen ==
  /\ configure([ autoOpen |-> TRUE ])
  /\ lastOp' = "configure"
  /\ UNCHANGED << hostVars, mdVars, now, domVars, pending, fetchCount, autoOpenTimer >>

AutoOpenNext ==
  \/ Open
  \/ Close
  \/ Minimize
  \/ Reset
  \/ ConfigureAutoOpen
  \/ AutoResize
  \/ AutoOpen

AutoOpenSpec == AutoOpenInit /\ [][AutoOpenNext]_vars

(***************************************************************************)
(* The script included on the page more than once.  Each run is a new      *)
(* closure with its own state, creates and appends its own container and   *)
(* rebinds window.MedicalAIWidget to its own functions; the widget         *)
(* variables stand for the state behind window.MedicalAIWidget.            *)
(***************************************************************************)
LoadAgain ==
  /\ containers < MaxLoads
  /\ containers' = containers + 1
  /\ defaultConfig' = defaultConfigLiteral
  /\ config' = loadConfig
  /\ isOpen' = FALSE
  /\ isMinimized' = FALSE
  /\ isLoading' = FALSE
  /\ messages' = << message("assistant", config'.greeting, now) >>
  /\ \E r \in RandomSuffixes : sessionId' = newSessionId(now, r)
  /\ containerStyle' = positionRule(config')
  /\ styleSheet' = themeColor(config')
  /\ pending' = << >>
  /\ autoOpenTimer' = IF autoOpenSet(config') THEN "scheduled" ELSE "none"
  /\ Rerender
  /\ lastOp' = "load"
  /\ UNCHANGED << MedicalAIWidgetConfig, mdVars, now, fetchCount >>

ReloadNext ==
  \/ Open
  \/ Close
  \/ Minimize
  \/ Reset
  \/ ConfigureAny
  \/ AutoOpen
  \/ AutoResize
  \/ LoadAgain

ReloadSpec == Init /\ [][ReloadNext]_vars

(***************************************************************************)
(* parseMarkdown on texts with one marker that has no partner.             *)
(***************************************************************************)
UnmatchedMarkers ==
  { << "*", "*" >>, << "_", "_" >>, << "*" >>, << "_" >>, << BT >> }

MalformedWords == { << "bold" >>, << "a", " ", "b" >> }

\* the marker opens at the start of a word that nothing closes, or is left
\* at the end of one
MalformedTexts ==
  { pre \o m \o w : pre \in Prefixes, m \in UnmatchedMarkers, w \in MalformedWords }
  \cup
  { pre \o w \o m : pre \in Prefixes, m \in UnmatchedMarkers, w \in MalformedWords }

MalformedInit ==
  /\ WidgetInit
  /\ mdText \in MalformedTexts
  /\ mdHtml = << >>

MalformedSpec == MalformedInit /\ [][MdNext]_vars

(***************************************************************************)
(* parseMarkdown on texts of one or two lines of every kind the rules      *)
(* distinguish.                                                            *)
(***************************************************************************)
WrapLines ==
  { << "a" >>,
    << "#", " ", "T" >>,
    << "#", "#", " ", "T" >>,
    << "#", "#", "#", " ", "T" >>,
    << "#", "#", "#", "#", " ", "T" >>,
    << "#", "T" >>,
    << "*", " ", "x" >>,
    << "-", " ", "x" >>,
    << "+", " ", "x" >>,
    << "1", ".", " ", "x" >>,
    << "1", ".", "x" >>,
    << "*", " ", "x", " ", "*", "y", "*" >>,
    << BT, BT, BT, "c", BT, BT, BT >>,
    << BT, "c", BT >>,
    << "*", "*", "b", "*", "*" >> }

LineBreaks == { << "\n" >>, << "\n", "\n" >> }

WrapTexts ==
  WrapLines \cup { l1 \o br \o l2 : l1 \in WrapLines, br \in LineBreaks, l2 \in WrapLines }

WrapInit ==
  /\ WidgetInit
  /\ mdText \in WrapTexts
  /\ mdHtml = << >>

WrapSpec == WrapInit /\ [][MdNext]_vars

(***************************************************************************)
(* parseMarkdown on texts of up to three lines, each a list line with one  *)
(* of the four prefixes or a plain line.                                   *)
(***************************************************************************)
ListLines ==
  { << "*", " ", "a" >>,
    << "-", " ", "b" >>,
    << "+", " ", "c" >>,
    << "1", ".", " ", "d" >>,
    << "1", "2", ".", " ", "e" >>,
    << "t" >> }

ListTexts ==
  ListLines
  \cup { l1 \o << "\n" >> \o l2 : l1 \in ListLines, l2 \in ListLines }
  \cup { l1 \o << "\n" >> \o l2 \o << "\n" >> \o l3 :
           l1 \in ListLines, l2 \in ListLines, l3 \in ListLines }

ListInit ==
  /\ WidgetInit
  /\ mdText \in ListTexts
  /\ mdHtml = << >>

ListSpec == ListInit /\ [][MdNext]_vars

(***************************************************************************)
(* The success path on its own: every request gets a 2xx response, whose   *)
(* JSON body is an object with or without a response field, with or        *)
(* without other fields, or is the JSON value null.                        *)
(***************************************************************************)
ReplyBodies ==
  { [ isNull |-> FALSE, value |-> [ response |-> << "A" >> ] ],
    [ isNull |-> FALSE, value |-> [ response |-> << "A" >>, sources |-> "s",
                                    conversation_id |-> "c" ] ],
    [ isNull |-> FALSE, value |-> [ response |-> << >> ] ],
    [ isNull |-> FALSE, value |-> [ response |-> << >>, sources |-> "s" ] ],
    [ isNull |-> FALSE, value |-> EmptyObject ],
    [ isNull |-> FALSE, value |-> [ error |-> "e", sources |-> "s" ] ],
    [ isNull |-> TRUE,  value |-> EmptyObject ] }

\* the TypeError of data.response when data is null
nullTypeError == "Cannot read properties of null (reading 'response')"

\* await response.json() fulfils with the body for the invocation pending[i]
jsonFulfils(i, body) ==
  IF body.isNull
  THEN /\ pending[i].await = "json"
       /\ finish(i, errorContent(nullTypeError))
  ELSE jsonSettles(i, [ settled |-> "fulfilled", data |-> body.value,
                        message |-> "" ])

JsonFulfils ==
  /\ \E i \in 1..Len(pending), body \in ReplyBodies : jsonFulfils(i, body)
  /\ lastOp' = "jsonSettles"

ReplyNext ==
  \/ Open
  \/ Close
  \/ Minimize
  \/ AutoOpen
  \/ SeqType
  \/ SendMessage /\ fetchCount' <= MaxSends
  \/ HandleKeyPress /\ fetchCount' <= MaxSends
  \/ FetchFulfils
  \/ JsonFulfils

ReplySpec == Init /\ [][ReplyNext]_vars

(***************************************************************************)
(* parseMarkdown on texts whose markers overlap, and on the one- and       *)
(* two-line texts of WrapTexts.                                            *)
(***************************************************************************)
NestTexts ==
  { << "*", "*", "*", "a", "*", "*", "*" >>,
    << "*", "*", "a", "*", "b", "*", "*", "c", "*" >>,
    << "_", "_", "a", "*", "b", "_", "_", "c", "*" >>,
    << BT, "*", "a", BT, "*" >>,
    << "*", BT, "a", "*", BT >>,
    << "*", "*", "a", " ", "_", "b", "_", "*", "*" >>,
    << "*", "a", " ", BT, "b", BT, "*" >> }

NestInit ==
  /\ WidgetInit
  /\ mdText \in NestTexts \cup WrapTexts
  /\ mdHtml = << >>

NestSpec == NestInit /\ [][MdNext]_vars

\* the same with the clock advancing
TimedNext ==
  \/ Tick
  \/ Next

TimedSpec == Init /\ [][TimedNext]_vars


(***************************************************************************)
(* Properties.                                                             *)
(***************************************************************************)
sendEntry == { "sendMessage", "handleKeyPress" }
settleEntry == { "fetchSettles", "jsonSettles" }

onlyWhitespace(s) == \A i \in 1..Len(s) : s[i] \in Whitespace

greetingOnly(msgs, cfg) ==
  /\ Len(msgs) = 1
  /\ msgs[1].role = "assistant"
  /\ msgs[1].content = cfg.greeting

\* C1: a sendMessage invoked while isLoading is true issues no request and
\* appends nothing, whatever else has been interleaved, and at most one chat
\* request is outstanding at any time.
C1_SendWhileLoading ==
  /\ [](Len(pending) <= 1)
  /\ [][ (lastOp' \in sendEntry /\ isLoading)
           => /\ messages' = messages
              /\ pending' = pending
              /\ fetchCount' = fetchCount
              /\ isLoading' ]_vars

\* a send was invoked with text in the input while a request was outstanding
C1_Witness ==
  /\ lastOp \in sendEntry
  /\ ~rendered
  /\ isLoading
  /\ Len(pending) = 1
  /\ getInput
  /\ ~onlyWhitespace(inputValue)

\* some invocation is suspended on the given await
awaited(kind) == \E i \in 1..Len(pending) : pending[i].await = kind

\* C2: whatever a request settles with (a 2xx body, a non-2xx status, a
\* transport failure, a malformed body), the invocation that ends clears
\* isLoading and re-renders, and a 2xx response moves it on to the body; so in
\* every behaviour where each awaited promise settles, a set isLoading is
\* eventually false again.
C2_SettleClearsLoading ==
  /\ ([]<>~awaited("fetch") /\ []<>~awaited("json")) => (isLoading ~> ~isLoading)
  /\ [][ /\ \A i \in 1..Len(pending), o \in FetchOutcomes :
             (lastOp' = "fetchSettles" /\ fetchSettles(i, o))
               => IF o.settled = "fulfilled" /\ o.ok
                  THEN pending'[i].await = "json"
                  ELSE ~isLoading' /\ rendered' /\ ~innerHTML'.loadingHtml
                       /\ Len(pending') = Len(pending) - 1
        /\ \A i \in 1..Len(pending), o \in JsonOutcomes :
             (lastOp' = "jsonSettles" /\ jsonSettles(i, o))
               => ~isLoading' /\ rendered' /\ ~innerHTML'.loadingHtml
                  /\ Len(pending') = Len(pending) - 1 ]_vars

\* a request settled with a failure after close, reset and configure had all
\* been possible; the flag is clear and nothing is outstanding
C2_Witness ==
  /\ lastOp \in settleEntry
  /\ ~isLoading
  /\ pending = << >>
  /\ ~isOpen
  /\ Len(messages) = 2
  /\ messages[2].role = "assistant"
  /\ messages[2].content # << "A" >>

\* C3 (as claimed): right after reset() the transcript is the greeting alone
\* and the session identifier differs from the one before.
C3_ResetFreshSession ==
  [][ lastOp' = "reset"
        => greetingOnly(messages', config) /\ sessionId' # sessionId ]_vars

\* C4: a send with empty or whitespace-only input changes nothing and issues
\* no request.
C4_EmptySend ==
  [][ (lastOp' \in sendEntry /\ onlyWhitespace(inputValue))
        => /\ ~rendered'
           /\ UNCHANGED << config, defaultConfig, isOpen, isMinimized, isLoading,
                           messages, sessionId, innerHTML, inputValue, pending,
                           fetchCount, autoOpenTimer, containerStyle,
                           styleSheet >> ]_vars

\* a send was invoked on whitespace-only input with nothing outstanding
C4_Witness ==
  /\ lastOp \in sendEntry
  /\ ~rendered
  /\ ~isLoading
  /\ getInput
  /\ inputValue = << " " >>


appendsOne(old, new) ==
  /\ Len(new) = Len(old) + 1
  /\ SubSeq(new, 1, Len(old)) = old

nonBlank(s) == SelectSeq(s, LAMBDA t : t \notin Whitespace)

\* C5: after n sends, each made once the one before had been answered, the
\* transcript is the greeting and then, for each send in turn, its user message
\* and the assistant message with the answer to it: 2n+1 messages.
C5_SequentialSends ==
  /\ [] /\ messages[1].role = "assistant"
        /\ messages[1].content = config.greeting
        /\ Len(messages) = 2 * fetchCount + (IF isLoading THEN 0 ELSE 1)
        /\ \A i \in 1..fetchCount :
             /\ messages[2 * i].role = "user"
             /\ 2 * i + 1 <= Len(messages)
                  => /\ messages[2 * i + 1].role = "assistant"
                     /\ messages[2 * i + 1].content = stub(messages[2 * i].content)
  /\ [][ /\ messages' = messages \/ appendsOne(messages, messages')
         /\ fetchCount' = fetchCount + 1
              => /\ messages'[Len(messages')].content = nonBlank(inputValue)
                 /\ messages'[Len(messages')].role = "user" ]_vars

\* two sends, "first" answered A and then "second" answered B
C5_Witness ==
  /\ fetchCount = 2
  /\ ~isLoading
  /\ Len(messages) = 5
  /\ messages[2].content = << "first" >>
  /\ messages[3].content = << "A" >>
  /\ messages[4].content = << "second" >>
  /\ messages[5].content = << "B" >>

failureHandled(errorText) ==
  /\ appendsOne(messages, messages')
  /\ messages'[Len(messages')].role = "assistant"
  /\ includes(messages'[Len(messages')].content, errorText)
  /\ ~isLoading'
  /\ Len(pending') = Len(pending) - 1

\* C6: a non-2xx status, a transport failure and a malformed body each end the
\* send with exactly one more message, an assistant message holding the error
\* text, and with isLoading false.
C6_FailurePath ==
  [][ /\ \A i \in 1..Len(pending), o \in FetchOutcomes :
           (lastOp' = "fetchSettles" /\ fetchSettles(i, o) /\ ~(o.settled = "fulfilled" /\ o.ok))
             => failureHandled(IF o.settled = "rejected" THEN o.message
                               ELSE "HTTP 500: Internal Server Error")
      /\ \A i \in 1..Len(pending), o \in JsonOutcomes :
           (lastOp' = "jsonSettles" /\ jsonSettles(i, o) /\ o.settled = "rejected")
             => failureHandled(o.message) ]_vars

\* the body of a 2xx response was malformed: the error follows the user message
C6_Witness ==
  /\ lastOp = "jsonSettles"
  /\ ~isLoading
  /\ Len(messages) >= 3
  /\ messages[Len(messages) - 1].role = "user"
  /\ messages[Len(messages)].role = "assistant"
  /\ includes(messages[Len(messages)].content, "Unexpected token < in JSON")

\* C7: close() and reset() leave an outstanding request outstanding, with the
\* session identifier it was sent with, and when it ends its assistant message
\* is appended to the transcript of that moment.
C7_NoCancellation ==
  [][ /\ lastOp' \in { "close", "reset" } => pending' = pending
      /\ (lastOp' \in settleEntry /\ Len(pending') < Len(pending))
           => /\ appendsOne(messages, messages')
              /\ messages'[Len(messages')].role = "assistant" ]_vars

\* a reset during the request: its answer stands right after the new greeting
C7_Witness ==
  /\ lastOp \in settleEntry
  /\ ~isLoading
  /\ Len(messages) = 2
  /\ messages[1].role = "assistant"
  /\ messages[1].content = config.greeting
  /\ messages[2].role = "assistant"
  /\ messages[2].content = << "A" >>

\* C8: configure gives every key of the partial the partial's value, keeps
\* every other key with its value, and re-renders.
C8_ConfigureMerges ==
  [][ \A newConfig \in Partials :
        (lastOp' = "configure" /\ configure(newConfig))
          => /\ DOMAIN config' = (DOMAIN config) \cup (DOMAIN newConfig)
             /\ \A k \in DOMAIN newConfig : config'[k] = newConfig[k]
             /\ \A k \in (DOMAIN config) \ (DOMAIN newConfig) : config'[k] = config[k]
             /\ rendered'
             /\ innerHTML' = render(isOpen, isMinimized, isLoading, messages,
                                    sessionId, config') ]_vars

\* three partials have been merged over a host configuration
C8_Witness ==
  /\ lastOp = "configure"
  /\ config.theme = "purple"
  /\ config.position = "top-left"
  /\ config.title = "Clinic"
  /\ config.width = "350px"
  /\ "autoOpen" \in DOMAIN config

\* C9 (as claimed): once open() has run, the panel is placed by the configured
\* position and coloured by the configured theme.
C9_ConfigureThenOpen ==
  (lastOp = "open" /\ innerHTML.view = "widget-chat")
    => /\ containerStyle = positionRule(config)
       /\ styleSheet = themeColor(config)

count(s, tok) == Cardinality({ i \in 1..Len(s) : s[i] = tok })

holds(s, part) ==
  \E i \in 0..(Len(s) - Len(part)) : SubSeq(s, i + 1, i + Len(part)) = part

\* C10: for a text with one **bold**, one *italic* and one inline code span in
\* separate places, the output has one strong element around the bold text,
\* one emphasis element around the italic text, one code element around the
\* code text, and no other such element.
C10_ThreeSpans ==
  mdHtml # << >>
    => /\ count(mdHtml, "<strong>") = 1 /\ count(mdHtml, "</strong>") = 1
       /\ count(mdHtml, "<em>") = 1 /\ count(mdHtml, "</em>") = 1
       /\ count(mdHtml, "<code>") = 1 /\ count(mdHtml, "</code>") = 1
       /\ count(mdHtml, "<pre>") = 0
       /\ holds(mdHtml, << "<strong>" >> \o BoldText \o << "</strong>" >>)
       /\ holds(mdHtml, << "<em>" >> \o ItalicText \o << "</em>" >>)
       /\ holds(mdHtml, << "<code>" >> \o CodeText \o << "</code>" >>)
       /\ \A i \in 1..Len(mdHtml) : mdHtml[i] \notin { "*", "_", BT }

\* "**bold** and *it alic* and `code`" has been rendered
C10_Witness ==
  mdHtml = << "<p>", "<strong>", "bold", "</strong>", " ", "and", " ",
              "<em>", "it", " ", "alic", "</em>", " ", "and", " ",
              "<code>", "code", "</code>", "</p>" >>

\* C11 (as claimed): every user message of the panel shows its content as
\* text and brings no element of its own into the panel.
C11_UserTextLiteral ==
  \A i \in 1..Len(innerHTML.messagesHtml) :
    (innerHTML.messagesHtml[i].role = "user" /\ i <= Len(messages))
      => /\ domElements(innerHTML.messagesHtml[i].content) = << >>
         /\ domText(innerHTML.messagesHtml[i].content) = messages[i].content

\* C12: the session identifier changes in no step other than a reset(): open,
\* close, minimize, configure, sendMessage, handleKeyPress, autoResize, the
\* auto-open timer and both settle steps leave it as it is.
C12_SessionIdFrame ==
  [][ /\ sessionId' # sessionId => lastOp' = "reset"
      /\ lastOp' \in { "open", "close", "minimize", "configure", "sendMessage",
                       "handleKeyPress", "autoResize", "autoOpen",
                       "fetchSettles", "jsonSettles" }
           => sessionId' = sessionId ]_vars

\* the timer has fired, configure has run, the panel is minimized and two
\* requests have been sent and answered
C12_Witness ==
  /\ lastOp = "jsonSettles"
  /\ fetchCount = 2
  /\ autoOpenTimer = "fired"
  /\ config.theme = "dark"
  /\ isMinimized
  /\ pending = << >>

\* C13: the transcript is never empty and its first message is the assistant
\* message holding the greeting that was configured when the transcript was
\* started, at load or by the last reset(); no other step touches it.
C13_GreetingFirst ==
  /\ messages[1].content = config.greeting
  /\ [](Len(messages) >= 1 /\ messages[1].role = "assistant")
  /\ [][ (Len(messages') >= 1 /\ messages'[1] # messages[1])
           => /\ lastOp' = "reset"
              /\ messages'[1].content = config.greeting ]_vars

\* after configure and reset a send has been answered: the greeting of the
\* reset, the user message, the answer
C13_Witness ==
  /\ lastOp \in settleEntry
  /\ Len(messages) = 3
  /\ messages[1].content = << "Welcome" >>
  /\ messages[2].role = "user"
  /\ messages[3].role = "assistant"

\* one of the eight combinations of the three flags
flagCombination(o, m, l) == isOpen = o /\ isMinimized = m /\ isLoading = l

\* C14: in whatever combination of isOpen, isMinimized and isLoading it
\* runs, open() opens and expands, close() closes, minimize() toggles, reset()
\* and configure() leave the three flags alone, the end of a request appends
\* its assistant message and clears isLoading only, and each of them renders
\* the markup of the combination it leaves.
C14_FlagsOrthogonal ==
  [][ /\ lastOp' \in { "open", "autoOpen" }
           => isOpen' /\ ~isMinimized' /\ isLoading' = isLoading
      /\ lastOp' = "close"
           => ~isOpen' /\ isMinimized' = isMinimized /\ isLoading' = isLoading
      /\ lastOp' = "minimize"
           => isMinimized' = ~isMinimized /\ isOpen' = isOpen
              /\ isLoading' = isLoading
      /\ lastOp' \in { "reset", "configure" } => UNCHANGED flagVars
      /\ (lastOp' \in settleEntry /\ Len(pending') < Len(pending))
           => /\ ~isLoading' /\ isOpen' = isOpen /\ isMinimized' = isMinimized
              /\ appendsOne(messages, messages')
              /\ messages'[Len(messages')].role = "assistant"
      /\ (lastOp' \in { "open", "autoOpen", "close", "minimize", "reset",
                        "configure" }
            \/ (lastOp' \in settleEntry /\ Len(pending') < Len(pending)))
           => /\ rendered'
              /\ innerHTML' = render(isOpen', isMinimized', isLoading',
                                     messages', sessionId', config') ]_vars

\* a request has ended while the panel was closed with isMinimized set
C14_Witness ==
  /\ lastOp \in settleEntry
  /\ flagCombination(FALSE, TRUE, FALSE)
  /\ pending = << >>
  /\ Len(messages) = 3
  /\ messages[3].role = "assistant"
  /\ innerHTML.view = "widget-button"

\* C15: a request is issued only by a send that appends a user message; it
\* is a POST to {apiUrl}/api/chat/widget-default carrying the trimmed text of
\* that message, the sessionId of that moment, user_id "anonymous" and the
\* embed-widget context; no settle step issues or re-issues a request.
C15_WireContract ==
  [][ /\ (fetchCount' # fetchCount \/ Len(pending') > Len(pending))
           => /\ lastOp' \in sendEntry
              /\ fetchCount' = fetchCount + 1
              /\ appendsOne(messages, messages')
              /\ messages'[Len(messages')].role = "user"
              /\ messages'[Len(messages')].content = trim(inputValue)
              /\ pending' = Append(pending,
                   [ await   |-> "fetch",
                     request |->
                       [ url    |-> << config.apiUrl, "/api/chat/widget-default" >>,
                         method |-> "POST",
                         body   |->
                           [ message         |-> messages'[Len(messages')].content,
                             conversation_id |-> sessionId,
                             user_id         |-> "anonymous",
                             context         |-> [ source |-> "embed-widget",
                                                   widget_session |-> TRUE ] ] ] ])
      /\ lastOp' \in settleEntry
           => /\ fetchCount' = fetchCount
              /\ \A j \in 1..Len(pending') :
                   \E i \in 1..Len(pending) :
                     pending'[j].request = pending[i].request ]_vars

\* the second request, sent after a reset, is in flight with the text "hi"
C15_Witness ==
  /\ lastOp \in sendEntry
  /\ fetchCount = 2
  /\ Len(pending) = 1
  /\ pending[1].request.body.message = << "hi" >>
  /\ pending[1].request.body.conversation_id = sessionId
  /\ sessionId[3] = "r1"
  /\ Len(messages) = 2

\* C16 (as claimed): a timer exists exactly when autoOpen was set at load,
\* its delay is the configured autoOpenDelay, it fires once, by an open(),
\* whatever the user did in between, and nothing else starts or fires it.
C16_AutoOpen ==
  /\ []((autoOpenTimer # "none") <=> autoOpenSet(loadConfig))
  /\ []((autoOpenSet(loadConfig) /\ "autoOpenDelay" \in DOMAIN loadConfig)
          => timeoutDelay(loadConfig) = loadConfig.autoOpenDelay)
  /\ [][ /\ lastOp' = "autoOpen"
              => autoOpenTimer = "scheduled" /\ autoOpenTimer' = "fired"
                 /\ isOpen' /\ ~isMinimized'
         /\ autoOpenTimer' # autoOpenTimer => lastOp' = "autoOpen" ]_vars

\* C17 (as claimed): the page holds one container with the widget's
\* identifier, and a run of the script on a page that already has the widget
\* leaves the state of the widget as it is.
C17_SingleInstance ==
  /\ [](containers = 1)
  /\ [][ lastOp' = "load"
           => UNCHANGED << config, isOpen, isMinimized, messages, sessionId >> ]_vars

\* C18 (as claimed): at load the active configuration is the defaults with
\* the host's keys laid over them, and the defaults keep their values through
\* every later operation.
C18_DefaultsImmutable ==
  /\ config = ObjectAssign(defaultConfigLiteral, MedicalAIWidgetConfig.value)
  /\ [](defaultConfig = defaultConfigLiteral)

\* C19 (as claimed): a text with an unmatched marker comes out with the
\* marker characters as they were and with no strong, emphasis or code element.
C19_UnmatchedLiteral ==
  mdHtml # << >>
    => /\ \A t \in { "<strong>", "</strong>", "<em>", "</em>", "<code>",
                      "</code>", "<pre>", "</pre>" } : count(mdHtml, t) = 0
       /\ \A c \in { "*", "_", BT } : count(mdHtml, c) = count(mdText, c)

\* the output begins and ends with the tags of the paragraph container
wrapped(html) == html[1] = "<p>" /\ html[Len(html)] = "</p>"

\* the output holds a header, a list item or a code block
producedBlock(html) ==
  \E t \in { "<h1>", "<h2>", "<h3>", "<li>", "<pre>" } : includes(html, t)

isListLine(l) ==
  \/ startsWith(l, << "*", " " >>)
  \/ startsWith(l, << "-", " " >>)
  \/ startsWith(l, << "+", " " >>)
  \/ orderedPrefixLen(l) > 0

\* how many lines of the text are list lines
listLineCount(text) ==
  LET ls == splitLines(text)
  IN  Cardinality({ i \in 1..Len(ls) : isListLine(ls[i]) })

\* how many runs of list lines the text has: the list lines that do not
\* follow a list line
listRunCount(text) ==
  LET ls == splitLines(text)
  IN  Cardinality({ i \in 1..Len(ls) :
                      isListLine(ls[i]) /\ (i = 1 \/ ~isListLine(ls[i - 1])) })

\* the tokens of a list container that stand outside its list items
outsideItems(html) ==
  { i \in 1..Len(html) :
      /\ \E a \in 1..(i - 1) : html[a] = "<ul>"
      /\ \E b \in (i + 1)..Len(html) : html[b] = "</ul>"
      /\ html[i] \notin { "<li>", "</li>", "<ul>", "</ul>" }
      /\ LET opens == { a \in 1..(i - 1) : html[a] = "<li>" }
             closes == { b \in 1..(i - 1) : html[b] = "</li>" }
         IN  Cardinality(opens) = Cardinality(closes) }

\* C21 (as claimed): every list line becomes one list item, and every run of
\* list lines gets one list container of its own, which holds the items of
\* the run (and the line breaks between them) and nothing else.
C21_Lists ==
  mdHtml # << >>
    => /\ count(mdHtml, "<li>") = listLineCount(mdText)
       /\ count(mdHtml, "</li>") = listLineCount(mdText)
       /\ count(mdHtml, "<ul>") = listRunCount(mdText)
       /\ count(mdHtml, "</ul>") = listRunCount(mdText)
       /\ \A i \in outsideItems(mdHtml) : mdHtml[i] = "<br>"

\* the widget state open(), close() and minimize() leave alone
stateFrame == << isLoading, messages, sessionId, config, pending, fetchCount >>

\* C22: open() sets isOpen to true and isMinimized to false and changes
\* nothing else; close() sets isOpen to false and leaves the transcript,
\* sessionId, isMinimized and isLoading unchanged; minimize() flips
\* isMinimized and changes nothing else, also when the widget is closed.
C22_OpenCloseMinimize ==
  [][ /\ lastOp' = "open"
           => isOpen' /\ ~isMinimized' /\ UNCHANGED stateFrame
      /\ lastOp' = "close"
           => ~isOpen' /\ UNCHANGED << isMinimized, stateFrame >>
      /\ lastOp' = "minimize"
           => /\ isMinimized' = ~isMinimized
              /\ UNCHANGED << isOpen, stateFrame >> ]_vars

\* minimize() has just flipped the flag of a closed widget whose request is
\* still outstanding
C22_Witness ==
  /\ lastOp = "minimize"
  /\ ~isOpen
  /\ isMinimized
  /\ isLoading
  /\ Len(pending) = 1

\* C23: reset() leaves isOpen, isMinimized and isLoading unchanged; a reset
\* while a request is outstanding leaves isLoading true, which stays true for
\* as long as that request is outstanding, so a send in that time is rejected.
C23_ResetFrame ==
  /\ [](Len(pending) >= 1 => isLoading)
  /\ [][ /\ lastOp' = "reset"
              => UNCHANGED << isOpen, isMinimized, isLoading, pending >>
         /\ (lastOp' = "reset" /\ Len(pending) = 1) => isLoading'
         /\ (lastOp' \in sendEntry /\ Len(pending) >= 1)
              => UNCHANGED << messages, pending, fetchCount, isLoading >> ]_vars

\* after a reset during the request, text was typed into the new session's
\* input and its send was rejected: the request of the old session is still
\* outstanding
C23_Witness ==
  /\ lastOp \in sendEntry
  /\ ~rendered
  /\ isLoading
  /\ Len(pending) = 1
  /\ pending[1].request.body.conversation_id # sessionId
  /\ greetingOnly(messages, config)
  /\ getInput
  /\ ~onlyWhitespace(inputValue)

\* C24: the markup is a function of the current state only: the floating
\* button when isOpen is false; the panel with header only when isOpen and
\* isMinimized; the panel with header, transcript, input and footer when
\* isOpen and not isMinimized; the thinking indicator and the disabled send
\* button exactly when isOpen, not isMinimized and isLoading.
C24_RenderProjection ==
  /\ innerHTML = render(isOpen, isMinimized, isLoading, messages, sessionId,
                        config)
  /\ ~isOpen => innerHTML = renderButton
  /\ isOpen => /\ innerHTML.view = "widget-chat"
               /\ innerHTML.title = config.title
  /\ innerHTML.body <=> (isOpen /\ ~isMinimized)
  /\ (innerHTML.inputId # NoElement) <=> (isOpen /\ ~isMinimized)
  /\ (isOpen /\ ~isMinimized)
       => /\ innerHTML.inputId = sessionId
          /\ innerHTML.placeholder = config.placeholder
          /\ innerHTML.messagesHtml
               = [ i \in 1..Len(messages) |-> renderMessage(messages[i]) ]
  /\ (isOpen /\ isMinimized) => innerHTML.messagesHtml = << >>
  /\ innerHTML.loadingHtml <=> (isOpen /\ ~isMinimized /\ isLoading)
  /\ innerHTML.sendDisabled <=> (isOpen /\ ~isMinimized /\ isLoading)

\* the panel was minimized during a request: header only, no indicator
C24_Witness ==
  /\ lastOp = "minimize"
  /\ isOpen
  /\ isMinimized
  /\ isLoading
  /\ ~innerHTML.body
  /\ ~innerHTML.loadingHtml
  /\ innerHTML.title = config.title

\* the response field of a body, as the reply reads it
responseOf(body) ==
  IF ~body.isNull /\ "response" \in DOMAIN body.value
  THEN << "present", body.value.response >>
  ELSE << "absent", body.isNull >>

\* the step appends one assistant message with the given content and nothing
\* else
repliesWith(content) ==
  /\ appendsOne(messages, messages')
  /\ messages'[Len(messages')].role = "assistant"
  /\ messages'[Len(messages')].content = content

\* C25 (as claimed): a 2xx response with a JSON body appends exactly one
\* assistant message, whose content is the body's response field when the
\* field is present and the apology when it is absent.
C25_ResponseWhenPresent ==
  [][ \A i \in 1..Len(pending), body \in ReplyBodies :
        (lastOp' = "jsonSettles" /\ jsonFulfils(i, body))
          => repliesWith(IF responseOf(body)[1] = "present"
                         THEN body.value.response
                         ELSE apology) ]_vars

\* C25 (amended): a 2xx response with a JSON body appends exactly one
\* assistant message: the body's response field when the body is an object
\* whose response field is a non-empty string, the apology when the body is an
\* object whose response field is absent or empty, and the connection-error
\* text when the body is null; no other field of the body makes a difference
\* to the step.
C25_SuccessPath ==
  [][ \A i \in 1..Len(pending), body \in ReplyBodies :
        (lastOp' = "jsonSettles" /\ jsonFulfils(i, body))
          => /\ repliesWith(IF body.isNull THEN errorContent(nullTypeError)
                            ELSE IF responseOf(body)[1] = "present"
                                    /\ body.value.response # << >>
                            THEN body.value.response
                            ELSE apology)
             /\ ~isLoading'
             /\ \A other \in ReplyBodies :
                  responseOf(other) = responseOf(body) => jsonFulfils(i, other) ]_vars

\* a 2xx reply with a response was appended as it came, and the next 2xx
\* reply was answered with the apology
C25_Witness ==
  /\ lastOp = "jsonSettles"
  /\ ~isLoading
  /\ Len(messages) = 5
  /\ messages[3].content = << "A" >>
  /\ messages[5].role = "assistant"
  /\ messages[5].content = apology

\* C26: every operation other than reset() leaves the transcript unchanged or
\* appends exactly one message at its end: the transcript before is a prefix
\* of the transcript after, with every message in it as it was.
C26_AppendOnly ==
  [][ lastOp' # "reset"
        => /\ messages' = messages \/ appendsOne(messages, messages')
           /\ Len(messages') >= Len(messages)
           /\ \A k \in 1..Len(messages) : messages'[k] = messages[k] ]_vars

\* two sends answered, with a configure of the greeting and a close between:
\* the five messages stand in the order they were appended
C26_Witness ==
  /\ lastOp \in settleEntry
  /\ Len(messages) = 5
  /\ messages[1].content # config.greeting
  /\ messages[2].role = "user"
  /\ messages[3].role = "assistant"
  /\ messages[4].role = "user"
  /\ messages[5].role = "assistant"
  /\ ~isOpen

\* the transcript is one assistant message followed by user and assistant
\* messages in strict alternation, and it ends with a user message exactly
\* when isLoading is true
alternates(msgs, loading) ==
  /\ Len(msgs) >= 1
  /\ \A k \in 1..Len(msgs) :
       msgs[k].role = (IF k % 2 = 0 THEN "user" ELSE "assistant")
  /\ (msgs[Len(msgs)].role = "user") <=> loading

\* C27 (as claimed): in every reachable state the transcript is the greeting
\* followed by strictly alternating user and assistant messages, each
\* assistant message right after the user message it answers, and it ends
\* with an unanswered user message exactly when isLoading is true.
C27_TranscriptShape == alternates(messages, isLoading)

\* C27 (amended): the transcript has that shape at the load, and every step
\* other than a reset() during an outstanding request keeps it; in every
\* reachable state the transcript begins with an assistant message, no two
\* user messages are adjacent, and it ends with a user message only when
\* isLoading is true.
C27_ShapeUntilResetInFlight ==
  /\ alternates(messages, isLoading)
  /\ [][ (alternates(messages, isLoading) /\ ~(lastOp' = "reset" /\ isLoading))
           => alternates(messages', isLoading') ]_vars
  /\ [] /\ Len(messages) >= 1
        /\ messages[1].role = "assistant"
        /\ \A k \in 1..(Len(messages) - 1) :
             ~(messages[k].role = "user" /\ messages[k + 1].role = "user")
        /\ messages[Len(messages)].role = "user" => isLoading

\* the second send has pushed its user message after the first was answered
C27_Witness ==
  /\ lastOp \in sendEntry
  /\ rendered
  /\ isLoading
  /\ Len(messages) = 4
  /\ alternates(messages, isLoading)

\* C28: in every reachable state isLoading is true if and only if exactly one
\* chat request is outstanding, and false if and only if none is.
C28_LoadingMatchesNetwork ==
  /\ isLoading <=> Len(pending) = 1
  /\ ~isLoading <=> Len(pending) = 0

\* the request is still outstanding after a minimize, a close, a reset and a
\* configure, and isLoading is still true
C28_Witness ==
  /\ lastOp = "configure"
  /\ ~isOpen
  /\ isMinimized
  /\ Len(messages) = 1
  /\ Len(pending) = 1
  /\ pending[1].request.body.conversation_id # sessionId
  /\ config.theme = "dark"
  /\ isLoading

\* C29: the input element bound to the current sessionId exists exactly when
\* the widget is open and not minimized; when it is closed or minimized,
\* sendMessage and handleKeyPress leave the whole state unchanged, render
\* nothing and issue no request.
C29_SendWithoutInput ==
  /\ [](getInput <=> (isOpen /\ ~isMinimized))
  /\ [][ (lastOp' \in sendEntry /\ (~isOpen \/ isMinimized))
           => /\ ~rendered'
              /\ UNCHANGED << config, defaultConfig, isOpen, isMinimized,
                              isLoading, messages, sessionId, innerHTML,
                              inputValue, pending, fetchCount, autoOpenTimer,
                              containerStyle, styleSheet >> ]_vars

\* a send was invoked on the minimized panel after an answered exchange, with
\* nothing outstanding
C29_Witness ==
  /\ lastOp \in sendEntry
  /\ ~rendered
  /\ isOpen
  /\ isMinimized
  /\ ~getInput
  /\ ~isLoading
  /\ Len(messages) = 3

\* the elements parseMarkdown writes, each with its closing tag
closeTag ==
  [ t \in { "<h1>", "<h2>", "<h3>", "<strong>", "<em>", "<code>", "<pre>",
            "<li>", "<ul>", "<p>" } |->
      CASE t = "<h1>" -> "</h1>"
        [] t = "<h2>" -> "</h2>"
        [] t = "<h3>" -> "</h3>"
        [] t = "<strong>" -> "</strong>"
        [] t = "<em>" -> "</em>"
        [] t = "<code>" -> "</code>"
        [] t = "<pre>" -> "</pre>"
        [] t = "<li>" -> "</li>"
        [] t = "<ul>" -> "</ul>"
        [] t = "<p>" -> "</p>" ]

RECURSIVE nested(_, _)
\* read left to right with the open elements on a stack, every closing tag
\* closes the element opened last, and nothing is left open at the end
nested(html, stack) ==
  IF html = << >> THEN stack = << >>
  ELSE LET t == Head(html)
       IN  IF t \in DOMAIN closeTag
           THEN nested(Tail(html), << t >> \o stack)
           ELSE IF \E o \in DOMAIN closeTag : closeTag[o] = t
           THEN /\ stack # << >>
                /\ closeTag[Head(stack)] = t
                /\ nested(Tail(html), Tail(stack))
           ELSE nested(Tail(html), stack)

\* C30 (as claimed): every element opened in the output is closed, elements
\* are properly nested, never interleaved, and paragraph open and close tags
\* are balanced.
C30_WellFormed ==
  mdHtml # << >>
    => /\ \A o \in DOMAIN closeTag :
            count(mdHtml, o) = count(mdHtml, closeTag[o])
       /\ nested(mdHtml, << >>)

====
